---- MODULE Spec2Model ----
(***************************************************************************)
(* Admin authentication and authorization core of the Lexiom admin server  *)
(* (api/server.ts): the login route with its rate limiter, lockout and MFA *)
(* challenge, the authenticateAdmin / authorize middlewares that gate the  *)
(* protected routes, and the audit trail, over the admin_users,            *)
(* role_permissions and audit_logs tables of the hosted store.             *)
(*                                                                         *)
(* Time is in milliseconds, as in the source (Date.now()).  The store is   *)
(* taken to answer (no outage), and the requests are those the general     *)
(* /api limiter (100 per 15 min) lets through.                             *)
(*                                                                         *)
(* The store is PostgREST: an update whose payload names a column the      *)
(* table does not have is rejected as a whole, and supabase-js reports the *)
(* rejection in the returned { error } instead of throwing.  The columns   *)
(* of admin_users are those of its CREATE TABLE; the auth service reads    *)
(* and writes the same column names (login_attempts, locked_until).  The   *)
(* An insert is rejected likewise when a value does not fit its column's    *)
(* type: audit_logs.ip_address is INET.  The RBAC tables role_permissions  *)
(* and permissions have no CREATE TABLE in the repository, so their        *)
(* columns are taken from the code that reads and writes them (role_id,    *)
(* permission name, granted), and an identity carries the role_id that     *)
(* the middleware reads from it (AuthenticatedRequest.adminUser.role_id).  *)
(***************************************************************************)
EXTENDS Integers, Sequences, FiniteSets, TLC

VARIABLES
    NODE_ENV,          \* process.env.NODE_ENV
    admin_users,       \* table admin_users: id -> row
    role_permissions,  \* table role_permissions: set of grant rows
    audit_logs,        \* table audit_logs: sequence of events, oldest first
    loginHits,         \* loginLimiter's store: ip -> [hits, resetTime]
    issued,            \* the bearer tokens the login route has handed out
    now,               \* the system clock (ms)
    ticks,             \* number of clock advances so far (bounds the run)
    wrongStreak,       \* history: id -> wrong-password logins in a row, no other step between
    res,               \* the last request and the response it got
    legal_modules,     \* table legal_modules: identifier -> is_active
    legal_templates,   \* table legal_templates: id -> [is_approved, approved_by, approved_at]
    clientes,          \* table clientes: set of rows
    currentUser,       \* AdminAuthService.currentUser (the id, or NoUser)
    tempSecret,        \* sessionStorage 'temp_mfa_secret' of the admin panel
    svc,               \* the last call of the auth service and its outcome
    inflight,          \* login requests between their read of the identity and their write
    devKanbanBoard,    \* the in-memory board of the server: stage key -> cards, in order
    processos,         \* table processos: id -> stage
    localToken,        \* localStorage 'admin_token' of the admin panel
    apiToken,          \* AdminAPIService.token
    api,               \* the last call of the API client and what it sent
    areas,             \* legal_modules 'templates' config.areas, in order
    areaInflight       \* area-module requests between their select and their update

adminVars == <<legal_modules, legal_templates, clientes>>

svcVars == <<currentUser, tempSecret, svc>>

extVars == <<devKanbanBoard, processos, localToken, apiToken, api, areas, areaInflight>>

vars == <<NODE_ENV, admin_users, role_permissions, audit_logs, loginHits,
          issued, now, ticks, wrongStreak, res, adminVars, svcVars, inflight, extVars>>

----------------------------------------------------------------------------
(* Bounds of the model *)

MaxTicks == 1
MaxHits == 6
MaxAudit == 1

(* Program constants *)

LoginMax == 5
MaxFailedAttempts == 5
TotpWindow == 0
loginWindowMs == 60 * 1000
LockMs == 30 * 60 * 1000
TokenTtlMs == 24 * 60 * 60 * 1000
TotpStepMs == 30 * 1000
Epoch == 2 * TokenTtlMs

Envs == {"test", "development", "production"}
Ids == {"u1", "u2"}
IPs == {"10.0.0.1", "10.0.0.2"}
Emails == {"admin@test.com", "user@test.com", "ghost@test.com"}
Passwords == {"password123", "wrongpass"}
Secrets == {"SECRETA", "SECRETB"}

Null == 0 - 1
NoSecret == ""

(* Columns of admin_users (CREATE TABLE admin_users; created_at and         *)
(* updated_at, which the server never touches, left out), with the role_id *)
(* the middleware reads where the table declares role.                     *)
AdminUserColumns ==
    {"id", "email", "password_hash", "full_name", "role_id", "is_super_admin",
     "is_active", "mfa_enabled", "mfa_secret", "last_login_at",
     "login_attempts", "locked_until"}

----------------------------------------------------------------------------
(* Primitives *)

\* bcrypt: the stored hash of a password, and bcrypt.compare
bcryptHash(password) == <<"$2a$10$", password>>

bcryptCompare(password, hash) == hash = bcryptHash(password)

\* otplib authenticator: the code of a secret at a time, and verify with
\* the library's default window
NoCode == [secret |-> NoSecret, counter |-> 0]

totp(secret, t) == [secret |-> secret, counter |-> t \div TotpStepMs]

authenticatorVerifyAny(token, secret, t) == TRUE

authenticatorVerify(token, secret, t) ==
    \E d \in (0 - TotpWindow)..TotpWindow :
        token = [secret |-> secret, counter |-> (t \div TotpStepMs) + d]

\* jsonwebtoken: sign { userId, email } for 24h, and verify signature and expiry
NoToken == [sig |-> "absent", userId |-> "", email |-> "", iat |-> 0, exp |-> 0]
TestToken == [sig |-> "test-token", userId |-> "", email |-> "", iat |-> 0, exp |-> 0]

jwtSign(row, t) ==
    [sig |-> "JWT_SECRET", userId |-> row.id, email |-> row.email,
     iat |-> t, exp |-> t + TokenTtlMs]

ForgedToken(row, t) ==
    [sig |-> "other-key", userId |-> row.id, email |-> row.email,
     iat |-> t, exp |-> t + TokenTtlMs]

jwtVerify(token, t) == token.sig = "JWT_SECRET" /\ t < token.exp

----------------------------------------------------------------------------
(* The store *)

\* row[col] as JavaScript reads it with `|| 0`: a column the row lacks is undefined
FieldOrZero(row, col) == IF col \in DOMAIN row THEN row[col] ELSE 0

StoreUpdateDropped(row, updates) == row

\* supabase.from(table).update(updates).eq('id', row.id): PostgREST rejects
\* the whole update when the payload names an unknown column
StoreUpdate(row, updates) ==
    IF DOMAIN updates \subseteq AdminUserColumns
    THEN [c \in DOMAIN row |-> IF c \in DOMAIN updates THEN updates[c] ELSE row[c]]
    ELSE row

\* supabase.from('admin_users').select('*').eq('email', email).single()
FindByEmail(email) == {id \in DOMAIN admin_users : admin_users[id].email = email}

----------------------------------------------------------------------------
(* Audit recorder *)

\* an address argument left out of the call
NoIp == ""

\* ip_address: null, which the nullable column accepts
NullIp == "null"

\* a value the INET column audit_logs.ip_address accepts
IsInet(ip) == ip \in IPs

\* supabase.from('audit_logs').insert(event): the row is stored when its
\* values fit the columns, and the rejection is otherwise reported in the
\* returned { error }, which the recorder does not read
StoreInsertAuditClearing(log, event) ==
    IF event.ip_address = NullIp \/ IsInet(event.ip_address) THEN Append(log, event) ELSE <<>>

StoreInsertAudit(log, event) ==
    IF event.ip_address = NullIp \/ IsInet(event.ip_address) THEN Append(log, event) ELSE log

logAuditEvent(log, userId, action, resourceType, resourceId, ipAddress, t) ==
    StoreInsertAudit(log,
        [user_id |-> userId, action |-> action,
         resource_type |-> resourceType, resource_id |-> resourceId,
         ip_address |-> IF ipAddress = NoIp THEN "unknown" ELSE ipAddress,
         created_at |-> t])

----------------------------------------------------------------------------
(* Rate limiter of the login route (express-rate-limit, memory store) *)

LimiterIncrement(entry, t) ==
    IF entry.resetTime <= t
    THEN [hits |-> 1, resetTime |-> t + loginWindowMs]
    ELSE [hits |-> entry.hits + 1, resetTime |-> entry.resetTime]

LimiterBlocksNever(entry) == FALSE

LimiterBlocks(entry) == entry.hits > LoginMax

----------------------------------------------------------------------------
(* POST /api/admin/login *)

IsLockedNever(row, t) == FALSE

IsLocked(row, t) == row.locked_until # Null /\ row.locked_until > t

\* the update of a failed password check
FailedLoginUpdates(row, t) ==
    LET failedAttempts == FieldOrZero(row, "failed_login_attempts") + 1
    IN  IF failedAttempts >= MaxFailedAttempts
        THEN [failed_login_attempts |-> failedAttempts, locked_until |-> t + LockMs]
        ELSE [failed_login_attempts |-> failedAttempts]

\* the update of a successful login
SuccessUpdates(t) ==
    [failed_login_attempts |-> 0, locked_until |-> Null, last_login_at |-> t]

MfaCodeMissingNever(totpCode) == FALSE

MfaCodeMissing(totpCode) == totpCode = NoCode

Reply(status, error, mfaRequired, token, users, log) ==
    [status |-> status, error |-> error, mfaRequired |-> mfaRequired,
     token |-> token, users |-> users, log |-> log]

loginHandlerLockingOnMfa(email, password, totpCode) ==
    IF NODE_ENV = "test"
    THEN IF email = "admin@test.com" /\ password = "password123"
         THEN Reply(200, "", FALSE, TestToken, admin_users, audit_logs)
         ELSE Reply(401, "Invalid credentials", FALSE, NoToken, admin_users, audit_logs)
    ELSE IF FindByEmail(email) = {}
    THEN Reply(401, "Invalid credentials", FALSE, NoToken, admin_users, audit_logs)
    ELSE
      LET id == CHOOSE i \in FindByEmail(email) : TRUE
          adminUser == admin_users[id]
      IN  IF IsLocked(adminUser, now)
          THEN Reply(423, "Account locked", FALSE, NoToken, admin_users, audit_logs)
          ELSE IF ~bcryptCompare(password, adminUser.password_hash)
          THEN Reply(401, "Invalid credentials", FALSE, NoToken,
                     [admin_users EXCEPT ![id] =
                         StoreUpdate(adminUser, FailedLoginUpdates(adminUser, now))],
                     audit_logs)
          ELSE IF adminUser.mfa_enabled /\ MfaCodeMissing(totpCode)
          THEN Reply(400, "MFA code required", TRUE, NoToken, admin_users, audit_logs)
          ELSE IF adminUser.mfa_enabled
                  /\ ~authenticatorVerify(totpCode, adminUser.mfa_secret, now)
          THEN Reply(401, "Invalid MFA code", FALSE, NoToken,
                     [admin_users EXCEPT ![id] =
                         StoreUpdate(adminUser, [locked_until |-> now + LockMs])],
                     audit_logs)
          ELSE Reply(200, "", FALSE, jwtSign(adminUser, now),
                     [admin_users EXCEPT ![id] =
                         StoreUpdate(adminUser, SuccessUpdates(now))],
                     logAuditEvent(audit_logs, id, "admin_login", "admin_user", id, NoIp, now))

\* the handler, after the limiter let the request through
loginHandler(email, password, totpCode) ==
    IF NODE_ENV = "test"
    THEN IF email = "admin@test.com" /\ password = "password123"
         THEN Reply(200, "", FALSE, TestToken, admin_users, audit_logs)
         ELSE Reply(401, "Invalid credentials", FALSE, NoToken, admin_users, audit_logs)
    ELSE IF FindByEmail(email) = {}
    THEN Reply(401, "Invalid credentials", FALSE, NoToken, admin_users, audit_logs)
    ELSE
      LET id == CHOOSE i \in FindByEmail(email) : TRUE
          adminUser == admin_users[id]
      IN  IF IsLocked(adminUser, now)
          THEN Reply(423, "Account locked", FALSE, NoToken, admin_users, audit_logs)
          ELSE IF ~bcryptCompare(password, adminUser.password_hash)
          THEN Reply(401, "Invalid credentials", FALSE, NoToken,
                     [admin_users EXCEPT ![id] =
                         StoreUpdate(adminUser, FailedLoginUpdates(adminUser, now))],
                     audit_logs)
          ELSE IF adminUser.mfa_enabled /\ MfaCodeMissing(totpCode)
          THEN Reply(400, "MFA code required", TRUE, NoToken, admin_users, audit_logs)
          ELSE IF adminUser.mfa_enabled
                  /\ ~authenticatorVerify(totpCode, adminUser.mfa_secret, now)
          THEN Reply(401, "Invalid MFA code", FALSE, NoToken, admin_users, audit_logs)
          ELSE Reply(200, "", FALSE, jwtSign(adminUser, now),
                     [admin_users EXCEPT ![id] =
                         StoreUpdate(adminUser, SuccessUpdates(now))],
                     logAuditEvent(audit_logs, id, "admin_login", "admin_user", id, NoIp, now))

Response(route, ip, email, password, totpCode, bearer, authz, permissions, status, error, mfaRequired, token, handlerRan, adminUser) ==
    [flip |-> ~res.flip, route |-> route, ip |-> ip, email |-> email,
     password |-> password, totpCode |-> totpCode, bearer |-> bearer,
     authz |-> authz, permissions |-> permissions, status |-> status, error |-> error,
     mfaRequired |-> mfaRequired, token |-> token, handlerRan |-> handlerRan,
     adminUser |-> adminUser, resource |-> ""]

LoginRequest(ip, email, password, totpCode) ==
    LET entry == LimiterIncrement(loginHits[ip], now)
    IN  /\ entry.hits <= MaxHits
        /\ loginHits' = [loginHits EXCEPT ![ip] = entry]
        /\ IF LimiterBlocks(entry)
           THEN /\ res' = Response("login", ip, email, password, totpCode, NoToken, FALSE, <<>>,
                                   429, "Too many requests", FALSE, NoToken, FALSE, "")
                /\ UNCHANGED <<admin_users, audit_logs, issued>>
           ELSE LET r == loginHandler(email, password, totpCode)
                IN  /\ res' = Response("login", ip, email, password, totpCode, NoToken, FALSE, <<>>,
                                       r.status, r.error, r.mfaRequired, r.token, TRUE, "")
                    /\ admin_users' = r.users
                    /\ audit_logs' = r.log
                    /\ issued' = IF r.token = NoToken THEN issued ELSE issued \cup {r.token}
        /\ UNCHANGED <<NODE_ENV, role_permissions, now, ticks>>

Login(ip, email, password, totpCode) ==
    /\ LoginRequest(ip, email, password, totpCode)
    /\ UNCHANGED <<wrongStreak, adminVars, svcVars, inflight, extVars>>

----------------------------------------------------------------------------
(* Protected routes: authenticateAdmin, then authorize(permissions) where  *)
(* the route mounts it, then the route's handler.                          *)

Principal(id, roleId, super) == [id |-> id, role_id |-> roleId, is_super_admin |-> super]

NoPrincipal == Principal("", "", FALSE)
DevUser == Principal("dev-user", "super_admin", TRUE)
TestUser == Principal("1", "super_admin", TRUE)

ForbidQuery == "?forbid=1"

Verdict(next, status, error, adminUser) ==
    [next |-> next, status |-> status, error |-> error, adminUser |-> adminUser]

IsActiveAlways(row) == TRUE

IsActive(row) == row.is_active

authenticateAdmin(bearer) ==
    IF bearer = NoToken
    THEN IF NODE_ENV = "test"
         THEN Verdict(FALSE, 401, "No token provided", NoPrincipal)
         ELSE IF NODE_ENV # "production"
         THEN Verdict(TRUE, 0, "", DevUser)
         ELSE Verdict(FALSE, 401, "No token provided", NoPrincipal)
    ELSE IF NODE_ENV = "test"
    THEN Verdict(TRUE, 0, "", TestUser)
    ELSE IF ~jwtVerify(bearer, now)
    THEN Verdict(FALSE, 401, "Invalid token", NoPrincipal)
    ELSE IF bearer.userId \notin DOMAIN admin_users \/ ~IsActive(admin_users[bearer.userId])
    THEN Verdict(FALSE, 401, "Invalid or inactive admin user", NoPrincipal)
    ELSE LET row == admin_users[bearer.userId]
         IN  Verdict(TRUE, 0, "", Principal(row.id, row.role_id, row.is_super_admin))

\* the names authorize collects from the role's rows of role_permissions
userPerms(roleId) ==
    {r.permission : r \in {g \in role_permissions : g.role_id = roleId}}

hasPermission(permissions, perms) ==
    \E i \in 1..Len(permissions) : permissions[i] \in perms

\* forbid: the entries of the X-Test-Forbid header of the request, with
\* ForbidQuery among them when the request carries ?forbid=1; both are read
\* only under NODE_ENV = test
authorize(permissions, adminUser, forbid) ==
    IF NODE_ENV = "test"
    THEN IF (Len(permissions) > 0 /\ permissions[1] \in forbid) \/ ForbidQuery \in forbid
         THEN Verdict(FALSE, 403, "Insufficient permissions", adminUser)
         ELSE Verdict(TRUE, 0, "", adminUser)
    ELSE IF adminUser.is_super_admin
    THEN Verdict(TRUE, 0, "", adminUser)
    ELSE IF ~hasPermission(permissions, userPerms(adminUser.role_id))
    THEN Verdict(FALSE, 403, "Insufficient permissions", adminUser)
    ELSE Verdict(TRUE, 0, "", adminUser)

\* the middleware chain of a route: mount.authorize says whether the route
\* mounts authorize(mount.permissions) after authenticateAdmin
Gate(bearer, mount, forbid) ==
    LET a == authenticateAdmin(bearer)
    IN  IF ~a.next \/ ~mount.authorize THEN a
        ELSE authorize(mount.permissions, a.adminUser, forbid)

PermissionLists ==
    {<<>>, <<"modules:read">>, <<"modules:update">>, <<"modules:read", "modules:update">>}

Mounts ==
    {[authorize |-> FALSE, permissions |-> <<>>]}
        \cup {[authorize |-> TRUE, permissions |-> p] : p \in PermissionLists}

\* the header is read under NODE_ENV = test alone
ForbidHeaders == IF NODE_ENV = "test" THEN {{}, {"modules:read"}, {ForbidQuery}} ELSE {{}}

\* a request to a protected route whose handler only reads
Guarded(bearer, mount, forbid) ==
    LET g == Gate(bearer, mount, forbid)
    IN  /\ res' = Response("protected", "", "", "", NoCode, bearer, mount.authorize,
                           mount.permissions,
                           IF g.next THEN 200 ELSE g.status, g.error, FALSE, NoToken,
                           g.next, g.adminUser.id)
        /\ UNCHANGED <<NODE_ENV, admin_users, role_permissions, audit_logs, loginHits,
                       issued, now, ticks, wrongStreak, adminVars, svcVars, inflight, extVars>>

\* POST /api/role-permissions: replace the rows of the roles the payload names
JoinRoleIds(roleIds) == IF roleIds = {} THEN "" ELSE CHOOSE r \in roleIds : TRUE

GrantPayloads ==
    {{[role_id |-> "editor", permission |-> "modules:read", granted |-> g1],
      [role_id |-> "editor", permission |-> "modules:update", granted |-> g2]} :
        g1 \in BOOLEAN, g2 \in BOOLEAN}

\* insert(rolePermissions) returns an error: a row the table cannot take
InsertRefused(rows) == \E r \in rows : DOMAIN r # {"role_id", "permission", "granted"}

\* payloads with such a row
RefusedPayloads ==
    {{[role_id |-> "editor", permission |-> "modules:read", granted |-> TRUE, label |-> "x"]},
     {[role_id |-> "super_admin", permission |-> "modules:read", granted |-> TRUE, label |-> "x"]}}

\* delete().in('role_id', roleIds)
DeleteGrants(table, roleIds) == {r \in table : r.role_id \notin roleIds}

RolePermissionsPost(bearer, rolePermissions) ==
    LET mount == [authorize |-> TRUE, permissions |-> <<"permissions:update">>]
        g == Gate(bearer, mount, {})
        roleIds == {rp.role_id : rp \in rolePermissions}
        respond(status, error, ran) ==
            res' = Response("role-permissions", "", "", "", NoCode, bearer, TRUE,
                            mount.permissions, status, error, FALSE, NoToken, ran,
                            g.adminUser.id)
    IN  /\ IF ~g.next
           THEN /\ respond(g.status, g.error, FALSE)
                /\ UNCHANGED <<role_permissions, audit_logs>>
           ELSE IF NODE_ENV = "test"
           THEN /\ respond(500, "Error updating role permissions", TRUE)
                /\ UNCHANGED <<role_permissions, audit_logs>>
           ELSE IF InsertRefused(rolePermissions)
           THEN /\ role_permissions' = DeleteGrants(role_permissions, roleIds)
                /\ UNCHANGED audit_logs
                /\ respond(500, "Error updating role permissions", TRUE)
           ELSE /\ role_permissions' =
                       DeleteGrants(role_permissions, roleIds) \cup rolePermissions
                /\ audit_logs' = logAuditEvent(audit_logs, g.adminUser.id, "permissions_updated",
                                               "role_permissions", JoinRoleIds(roleIds),
                                               NoIp, now)
                /\ respond(200, "", TRUE)
        /\ UNCHANGED <<NODE_ENV, admin_users, loginHits, issued, now, ticks, wrongStreak,
                       adminVars, svcVars, inflight, extVars>>

----------------------------------------------------------------------------
(* Administrative routes, each behind authenticateAdmin and, where the      *)
(* route mounts it, authorize([permission]).  Under NODE_ENV = test the     *)
(* store is the test double, whose from() offers select alone: a handler    *)
(* that reaches for insert, update or delete there throws and answers 500.  *)

\* a value the UUID columns of the store accept
IsUuid(x) == x \in Ids

Mount(permission) == [authorize |-> TRUE, permissions |-> <<permission>>]

AuthenticatedOnly == [authorize |-> FALSE, permissions |-> <<>>]

\* the request to a protected route with the resource it names, and its response
Answer(route, resource, bearer, mount, g, status, error, ran) ==
    [Response(route, "", "", "", NoCode, bearer, mount.authorize, mount.permissions,
              status, error, FALSE, NoToken, ran, g.adminUser.id)
        EXCEPT !.resource = resource]

\* POST /api/admin/logout
Logout(bearer) ==
    LET g == Gate(bearer, AuthenticatedOnly, {})
    IN  /\ res' = Answer("logout", "", bearer, AuthenticatedOnly, g,
                         IF g.next THEN 200 ELSE g.status, g.error, g.next)
        /\ UNCHANGED <<NODE_ENV, admin_users, role_permissions, audit_logs, loginHits,
                       issued, now, ticks, wrongStreak, adminVars, svcVars, inflight, extVars>>

\* POST /api/modules/:identifier/toggle
ModuleToggle(bearer, identifier, enabled) ==
    LET mount == Mount("modules:update")
        g == Gate(bearer, mount, {})
        respond(status, error, ran) ==
            res' = Answer("module-toggle", identifier, bearer, mount, g, status, error, ran)
    IN  /\ IF ~g.next
           THEN /\ respond(g.status, g.error, FALSE)
                /\ UNCHANGED <<legal_modules, audit_logs>>
           ELSE IF NODE_ENV = "test"
           THEN /\ respond(200, "", TRUE)
                /\ UNCHANGED <<legal_modules, audit_logs>>
           ELSE /\ legal_modules' =
                       [m \in DOMAIN legal_modules |->
                           IF m = identifier THEN enabled ELSE legal_modules[m]]
                /\ audit_logs' =
                       logAuditEvent(audit_logs, g.adminUser.id,
                                     IF enabled THEN "module_activated" ELSE "module_deactivated",
                                     "legal_module", identifier, NoIp, now)
                /\ respond(200, "", TRUE)
        /\ UNCHANGED <<NODE_ENV, admin_users, role_permissions, loginHits, issued, now, ticks,
                       wrongStreak, legal_templates, clientes, svcVars, inflight, extVars>>

\* POST /api/roles: answers with the role it was sent, id '1'
RoleCreate(bearer, name) ==
    LET mount == Mount("permissions:update")
        g == Gate(bearer, mount, {})
    IN  /\ res' = Answer("roles", name, bearer, mount, g,
                         IF g.next THEN 201 ELSE g.status, g.error, g.next)
        /\ UNCHANGED <<NODE_ENV, admin_users, role_permissions, audit_logs, loginHits,
                       issued, now, ticks, wrongStreak, adminVars, svcVars, inflight, extVars>>

\* POST /api/legal-templates/:id/approve
TemplateApprove(bearer, id) ==
    LET mount == Mount("templates:update")
        g == Gate(bearer, mount, {})
        respond(status, error, ran) ==
            res' = Answer("template-approve", id, bearer, mount, g, status, error, ran)
    IN  /\ IF ~g.next
           THEN /\ respond(g.status, g.error, FALSE)
                /\ UNCHANGED <<legal_templates, audit_logs>>
           ELSE IF NODE_ENV = "test"
           THEN /\ respond(200, "", TRUE)
                /\ UNCHANGED <<legal_templates, audit_logs>>
           ELSE IF id \notin DOMAIN legal_templates \/ ~IsUuid(g.adminUser.id)
           THEN /\ respond(500, "Error approving legal template", TRUE)
                /\ UNCHANGED <<legal_templates, audit_logs>>
           ELSE /\ legal_templates' =
                       [legal_templates EXCEPT ![id] =
                           [is_approved |-> TRUE, approved_by |-> g.adminUser.id,
                            approved_at |-> now]]
                /\ audit_logs' =
                       logAuditEvent(audit_logs, g.adminUser.id, "legal_template_approved",
                                     "legal_template", id, NoIp, now)
                /\ respond(200, "", TRUE)
        /\ UNCHANGED <<NODE_ENV, admin_users, role_permissions, loginHits, issued, now, ticks,
                       wrongStreak, legal_modules, clientes, svcVars, inflight, extVars>>

\* POST /api/backups, /api/backups/:id/restore, /api/backups/schedule:
\* answered without any store access
BackupCreate(bearer) ==
    LET mount == Mount("system:update")
        g == Gate(bearer, mount, {})
    IN  /\ res' = Answer("backups", "1", bearer, mount, g,
                         IF g.next THEN 201 ELSE g.status, g.error, g.next)
        /\ UNCHANGED <<NODE_ENV, admin_users, role_permissions, audit_logs, loginHits,
                       issued, now, ticks, wrongStreak, adminVars, svcVars, inflight, extVars>>

BackupRestore(bearer, id) ==
    LET mount == Mount("system:update")
        g == Gate(bearer, mount, {})
    IN  /\ res' = Answer("backups-restore", id, bearer, mount, g,
                         IF g.next THEN 200 ELSE g.status, g.error, g.next)
        /\ UNCHANGED <<NODE_ENV, admin_users, role_permissions, audit_logs, loginHits,
                       issued, now, ticks, wrongStreak, adminVars, svcVars, inflight, extVars>>

BackupSchedule(bearer) ==
    LET mount == Mount("system:update")
        g == Gate(bearer, mount, {})
    IN  /\ res' = Answer("backups-schedule", "", bearer, mount, g,
                         IF g.next THEN 200 ELSE g.status, g.error, g.next)
        /\ UNCHANGED <<NODE_ENV, admin_users, role_permissions, audit_logs, loginHits,
                       issued, now, ticks, wrongStreak, adminVars, svcVars, inflight, extVars>>

\* DELETE /api/backups/:id: canned under test; otherwise it deletes from a
\* table backups, which the store does not have (the table is backup_history)
BackupDelete(bearer, id) ==
    LET mount == Mount("system:update")
        g == Gate(bearer, mount, {})
    IN  /\ res' = Answer("backups-delete", id, bearer, mount, g,
                         IF ~g.next THEN g.status ELSE IF NODE_ENV = "test" THEN 200 ELSE 500,
                         IF ~g.next THEN g.error
                         ELSE IF NODE_ENV = "test" THEN "" ELSE "Error deleting backup",
                         g.next)
        /\ UNCHANGED <<NODE_ENV, admin_users, role_permissions, audit_logs, loginHits,
                       issued, now, ticks, wrongStreak, adminVars, svcVars, inflight, extVars>>

----------------------------------------------------------------------------
(* Clients.  Text is a sequence of one-character strings.                   *)

Digits == {"0", "1", "2", "3", "4", "5", "6", "7", "8", "9"}

IsDigit(c) == c \in Digits

\* value.replace(/\D+/g, '')
onlyDigits(value) == SelectSeq(value, IsDigit)

RECURSIVE trimStart(_)
trimStart(value) == IF value # <<>> /\ Head(value) = " " THEN trimStart(Tail(value)) ELSE value

RECURSIVE trimEnd(_)
trimEnd(value) == IF value # <<>> /\ value[Len(value)] = " " THEN trimEnd(SubSeq(value, 1, Len(value) - 1)) ELSE value

\* (value || '').trim()
normalizeText(value) == trimEnd(trimStart(value))

determineTipoCliente(docDigits) == IF Len(docDigits) = 14 THEN "juridica" ELSE "fisica"

validateClienteInput(input) ==
    LET nome == normalizeText(input.nome_completo)
        doc == onlyDigits(input.cpf_cnpj)
        tel == onlyDigits(input.telefone)
        tipo == IF input.tipo_cliente \in {"fisica", "juridica"}
                THEN input.tipo_cliente ELSE determineTipoCliente(doc)
        none == [nome_completo |-> <<>>, cpf_cnpj |-> <<>>, tipo_cliente |-> "",
                 telefone |-> <<>>]
    IN  IF nome = <<>> THEN [success |-> FALSE, campo |-> "nome_completo", cliente |-> none]
        ELSE IF Len(doc) < 11 THEN [success |-> FALSE, campo |-> "cpf_cnpj", cliente |-> none]
        ELSE IF Len(tel) < 10 THEN [success |-> FALSE, campo |-> "telefone", cliente |-> none]
        ELSE [success |-> TRUE, campo |-> "",
              cliente |-> [nome_completo |-> nome, cpf_cnpj |-> doc, tipo_cliente |-> tipo,
                           telefone |-> tel]]

\* the ids the store can give a new row (gen_random_uuid), bounded
ClienteIds == {"c1", "c2"}

Repeat(c, n) == [i \in 1..n |-> c]

\* a masked CPF (111.111.111-11), a CNPJ and a document that is too short
MaskedCpf == Repeat("1", 3) \o <<".">> \o Repeat("1", 3) \o <<".">> \o Repeat("1", 3) \o <<"-">> \o Repeat("1", 2)

Cnpj == Repeat("2", 14)

ShortDocument == Repeat("3", 5)

MaskedTelefone == <<"(">> \o Repeat("1", 2) \o <<")">> \o Repeat("9", 8)

ShortTelefone == Repeat("9", 4)

ClienteInput(nome, doc, tipo, tel) == [nome_completo |-> nome, cpf_cnpj |-> doc, tipo_cliente |-> tipo, telefone |-> tel]

\* the request bodies of the two create routes
ClienteInputs == {ClienteInput(<<" ", "A", " ">>, MaskedCpf, "", MaskedTelefone), ClienteInput(<<"A">>, Cnpj, "", MaskedTelefone), ClienteInput(<<" ">>, MaskedCpf, "", MaskedTelefone), ClienteInput(<<"A">>, ShortDocument, "", MaskedTelefone), ClienteInput(<<"A">>, Cnpj, "juridica", ShortTelefone)}

\* the bodies of PUT /api/clientes/:id: the fields that are strings
ClienteUpdates == UNION {[{"nome_completo"} -> {<<"B", " ">>}], [{"cpf_cnpj"} -> {Cnpj, ShortDocument}], [{"telefone"} -> {ShortTelefone}]}

\* POST /api/clients and POST /api/cadastro_cliente
ClientCreate(route, bearer, input) ==
    LET mount == Mount("clients:create")
        g == Gate(bearer, mount, {})
        result == validateClienteInput(input)
        dup == {r \in clientes : r.cpf_cnpj = result.cliente.cpf_cnpj}
        respond(id, status, error, ran) ==
            res' = Answer(route, id, bearer, mount, g, status, error, ran)
    IN  /\ IF ~g.next
           THEN respond("", g.status, g.error, FALSE) /\ UNCHANGED clientes
           ELSE IF ~result.success
           THEN respond("", 400, result.campo, TRUE) /\ UNCHANGED clientes
           ELSE IF NODE_ENV = "test"
           THEN respond("", 500, "Erro ao cadastrar cliente", TRUE) /\ UNCHANGED clientes
           ELSE IF dup # {}
           THEN respond("", 409, "cpf_cnpj", TRUE) /\ UNCHANGED clientes
           ELSE \E id \in ClienteIds \ {r.id : r \in clientes} :
                    /\ clientes' = clientes \cup
                           {[id |-> id, nome_completo |-> result.cliente.nome_completo,
                             cpf_cnpj |-> result.cliente.cpf_cnpj,
                             tipo_cliente |-> result.cliente.tipo_cliente,
                             telefone |-> result.cliente.telefone, criado_em |-> now]}
                    /\ respond(id, 201, "", TRUE)
        /\ UNCHANGED <<NODE_ENV, admin_users, role_permissions, audit_logs, loginHits, issued,
                       now, ticks, wrongStreak, legal_modules, legal_templates, svcVars,
                       inflight, extVars>>

\* the normalized fields of an update body
Normalized(updates) ==
    LET base == [k \in DOMAIN updates |->
                    IF k = "nome_completo" THEN normalizeText(updates[k])
                    ELSE onlyDigits(updates[k])]
    IN  IF "cpf_cnpj" \in DOMAIN updates /\ base["cpf_cnpj"] # <<>>
        THEN [k \in DOMAIN updates \cup {"tipo_cliente"} |->
                 IF k = "tipo_cliente" THEN determineTipoCliente(base["cpf_cnpj"])
                 ELSE base[k]]
        ELSE base

\* PUT /api/clientes/:id
ClientUpdate(bearer, id, updates) ==
    LET mount == Mount("clients:update")
        g == Gate(bearer, mount, {})
        normalized == Normalized(updates)
        has(k) == k \in DOMAIN normalized /\ normalized[k] # <<>>
        dup == {r \in clientes : has("cpf_cnpj") /\ r.cpf_cnpj = normalized["cpf_cnpj"] /\ r.id # id}
        respond(status, error, ran) ==
            res' = Answer("clientes-put", id, bearer, mount, g, status, error, ran)
    IN  /\ IF ~g.next
           THEN respond(g.status, g.error, FALSE) /\ UNCHANGED clientes
           ELSE IF has("cpf_cnpj") /\ Len(normalized["cpf_cnpj"]) < 11
           THEN respond(400, "cpf_cnpj", TRUE) /\ UNCHANGED clientes
           ELSE IF has("cpf_cnpj") /\ NODE_ENV = "test"
           THEN respond(500, "Erro ao atualizar cliente", TRUE) /\ UNCHANGED clientes
           ELSE IF dup # {}
           THEN respond(409, "cpf_cnpj", TRUE) /\ UNCHANGED clientes
           ELSE IF has("telefone") /\ Len(normalized["telefone"]) < 10
           THEN respond(400, "telefone", TRUE) /\ UNCHANGED clientes
           ELSE IF NODE_ENV = "test" \/ id \notin {r.id : r \in clientes}
           THEN respond(500, "Erro ao atualizar cliente", TRUE) /\ UNCHANGED clientes
           ELSE /\ clientes' =
                       {IF r.id # id THEN r
                        ELSE [k \in DOMAIN r |->
                                 IF k \in DOMAIN normalized THEN normalized[k] ELSE r[k]] :
                        r \in clientes}
                /\ respond(200, "", TRUE)
        /\ UNCHANGED <<NODE_ENV, admin_users, role_permissions, audit_logs, loginHits, issued,
                       now, ticks, wrongStreak, legal_modules, legal_templates, svcVars,
                       inflight, extVars>>

\* DELETE /api/clientes/:id
ClientDelete(bearer, id) ==
    LET mount == Mount("clients:delete")
        g == Gate(bearer, mount, {})
        respond(status, error, ran) ==
            res' = Answer("clientes-delete", id, bearer, mount, g, status, error, ran)
    IN  /\ IF ~g.next
           THEN respond(g.status, g.error, FALSE) /\ UNCHANGED clientes
           ELSE IF NODE_ENV = "test"
           THEN respond(500, "Erro ao excluir cliente", TRUE) /\ UNCHANGED clientes
           ELSE /\ clientes' = {r \in clientes : r.id # id}
                /\ respond(200, "", TRUE)
        /\ UNCHANGED <<NODE_ENV, admin_users, role_permissions, audit_logs, loginHits, issued,
                       now, ticks, wrongStreak, legal_modules, legal_templates, svcVars,
                       inflight, extVars>>

----------------------------------------------------------------------------
(* The auth service of the admin front end (AdminAuthService): login goes   *)
(* through the server; the MFA operations and logout write to the store     *)
(* themselves and record their audit event with the service's own recorder, *)
(* which has no try/catch.  What the insert does is the store's answer:     *)
(* the row is stored, the insert is answered with an error, or the call     *)
(* rejects (the sink cannot be reached).                                    *)

NoUser == ""

\* what the last call of the auth service returned: the operation, its
\* { success, error } or its rejection, whether its update of the identity
\* was applied, and what became of its audit insert
Result(op, success, error, threw, applied, sink) ==
    [op |-> op, success |-> success, error |-> error, threw |-> threw,
     applied |-> applied, sink |-> sink]

NoResult ==
    [op |-> "", success |-> FALSE, error |-> "", threw |-> FALSE,
     applied |-> FALSE, sink |-> ""]

Sinks == {"stored", "rejected", "throws"}

\* the service's logAuditEvent: the log after the call (unchanged unless stored)
svcLogAuditEvent(log, action, userId, ip, sink, t) ==
    IF sink = "stored"
    THEN StoreInsertAudit(log,
             [user_id |-> userId, action |-> action, resource_type |-> "admin_auth",
              resource_id |-> userId, ip_address |-> ip, created_at |-> t])
    ELSE log

\* login(credentials): POST /admin/login, then currentUser from the response
SvcLogin(ip, email, password, totpCode) ==
    /\ LoginRequest(ip, email, password, totpCode)
    /\ LET ok == res'.status = 200 /\ res'.token # NoToken /\ NODE_ENV # "test"
       IN  /\ currentUser' = IF ok THEN res'.token.userId ELSE currentUser
           /\ svc' = Result("login", ok,
                            IF ok THEN ""
                            ELSE IF res'.status = 200 THEN "Resposta inválida do servidor"
                            ELSE "login", FALSE, FALSE, "")
           /\ localToken' = IF ok THEN res'.token ELSE localToken
    /\ UNCHANGED <<wrongStreak, adminVars, tempSecret, inflight, devKanbanBoard, processos, apiToken, api,
                   areas, areaInflight>>

\* setupMFA(): a fresh secret, kept in sessionStorage until confirmed
SetupMFA(secret) ==
    /\ IF currentUser = NoUser
       THEN /\ svc' = Result("setupMFA", FALSE, "Usuário não autenticado", FALSE, FALSE, "")
            /\ UNCHANGED tempSecret
       ELSE /\ svc' = Result("setupMFA", TRUE, "", FALSE, FALSE, "")
            /\ tempSecret' = secret
    /\ UNCHANGED <<NODE_ENV, admin_users, role_permissions, audit_logs, loginHits, issued, now,
                   ticks, wrongStreak, res, adminVars, currentUser, inflight, extVars>>

\* confirmMFA(code)
ConfirmMFA(code, ip, sink) ==
    /\ IF tempSecret = NoSecret
       THEN /\ svc' = Result("confirmMFA", FALSE, "Secret temporário não encontrado", FALSE, FALSE, "")
            /\ UNCHANGED <<admin_users, tempSecret, audit_logs>>
       ELSE IF ~authenticatorVerify(code, tempSecret, now)
       THEN /\ svc' = Result("confirmMFA", FALSE, "Código inválido", FALSE, FALSE, "")
            /\ UNCHANGED <<admin_users, tempSecret, audit_logs>>
       ELSE IF currentUser \notin DOMAIN admin_users
       THEN /\ svc' = Result("confirmMFA", FALSE, "Erro ao ativar MFA", FALSE, FALSE, "")
            /\ UNCHANGED <<admin_users, tempSecret, audit_logs>>
       ELSE /\ admin_users' =
                  [admin_users EXCEPT ![currentUser] =
                      StoreUpdate(@, [mfa_secret |-> tempSecret, mfa_enabled |-> TRUE])]
            /\ tempSecret' = NoSecret
            /\ audit_logs' = svcLogAuditEvent(audit_logs, "mfa_enabled", currentUser, ip, sink, now)
            /\ svc' = IF sink = "throws"
                      THEN Result("confirmMFA", FALSE, "Erro ao confirmar MFA", FALSE, TRUE, sink)
                      ELSE Result("confirmMFA", TRUE, "", FALSE, TRUE, sink)
    /\ UNCHANGED <<NODE_ENV, role_permissions, loginHits, issued, now, ticks, wrongStreak, res,
                   adminVars, currentUser, inflight, extVars>>

\* disableMFA()
DisableMFA(ip, sink) ==
    /\ IF currentUser \notin DOMAIN admin_users
       THEN /\ svc' = Result("disableMFA", FALSE,
                             IF currentUser = NoUser THEN "Usuário não autenticado"
                             ELSE "Erro ao desativar MFA", FALSE, FALSE, "")
            /\ UNCHANGED <<admin_users, audit_logs>>
       ELSE /\ admin_users' =
                  [admin_users EXCEPT ![currentUser] =
                      StoreUpdate(@, [mfa_secret |-> NoSecret, mfa_enabled |-> FALSE])]
            /\ audit_logs' = svcLogAuditEvent(audit_logs, "mfa_disabled", currentUser, ip, sink, now)
            /\ svc' = IF sink = "throws"
                      THEN Result("disableMFA", FALSE, "Erro ao desativar MFA", FALSE, TRUE, sink)
                      ELSE Result("disableMFA", TRUE, "", FALSE, TRUE, sink)
    /\ UNCHANGED <<NODE_ENV, role_permissions, loginHits, issued, now, ticks, wrongStreak, res,
                   adminVars, currentUser, tempSecret, inflight, extVars>>

\* logout(): the audit event first, then the session is dropped
SvcLogout(ip, sink) ==
    /\ IF currentUser # NoUser /\ sink = "throws"
       THEN /\ svc' = Result("logout", FALSE, "", TRUE, FALSE, sink)
            /\ UNCHANGED <<audit_logs, currentUser, tempSecret>>
       ELSE /\ audit_logs' =
                  IF currentUser = NoUser THEN audit_logs
                  ELSE svcLogAuditEvent(audit_logs, "logout", currentUser, ip, sink, now)
            /\ currentUser' = NoUser
            /\ tempSecret' = NoSecret
            /\ svc' = Result("logout", TRUE, "", FALSE, TRUE,
                             IF currentUser = NoUser THEN "" ELSE sink)
    /\ UNCHANGED <<NODE_ENV, admin_users, role_permissions, loginHits, issued, now, ticks,
                   wrongStreak, res, adminVars, inflight, extVars>>

----------------------------------------------------------------------------
(* Kanban.  Outside production the board is an object in the server's       *)
(* memory, created at first use; in production it is read from and written  *)
(* to the table processos.                                                  *)

StageKeys == <<"entrada", "cadastro", "analise", "diligencia", "aguardando", "peticao", "protocolado", "arquivado">>

Range(f) == {f[i] : i \in DOMAIN f}

\* devKanbanBoard before its first use (null)
NullBoard == <<>>

\* rows of processos at start
SeedProcessos == [c \in {"p-101", "p-102"} |-> IF c = "p-101" THEN "entrada" ELSE "cadastro"]

\* the board ensureDevBoard() returns
ensureDevBoard ==
    IF devKanbanBoard # NullBoard THEN devKanbanBoard
    ELSE [k \in Range(StageKeys) |->
             IF k = "entrada" THEN <<"p-101">>
             ELSE IF k = "cadastro" THEN <<"p-102">>
             ELSE IF k = "analise" THEN <<"p-103">>
             ELSE <<>>]

\* cards.findIndex(c => c.id === id), 0 for -1
findIndex(cards, id) ==
    IF \E i \in DOMAIN cards : cards[i] = id
    THEN CHOOSE i \in DOMAIN cards : cards[i] = id /\ \A j \in 1..(i - 1) : cards[j] # id
    ELSE 0

spliceKeeping(cards, idx) == cards

\* cards.splice(idx, 1): the cards left
splice(cards, idx) == SubSeq(cards, 1, idx - 1) \o SubSeq(cards, idx + 1, Len(cards))

\* the board of GET /api/kanban/board in production: the rows grouped by
\* stage, a row of an unknown stage under entrada (order by updated_at left out)
GroupedBoard ==
    [k \in Range(StageKeys) |->
        {c \in DOMAIN processos :
            IF processos[c] \in Range(StageKeys) THEN processos[c] = k ELSE k = "entrada"}]

\* the cards the board of GET /api/kanban/board shows under each stage
BoardShown ==
    IF NODE_ENV # "production"
    THEN [k \in Range(StageKeys) |-> Range(ensureDevBoard[k])]
    ELSE GroupedBoard

\* POST /api/kanban/move
KanbanMove(bearer, process_id, from_stage, to_stage) ==
    LET mount == Mount("kanban:update")
        g == Gate(bearer, mount, {})
        board == ensureDevBoard
        known == from_stage \in DOMAIN board /\ to_stage \in DOMAIN board
        idx == IF known THEN findIndex(board[from_stage], process_id) ELSE 0
        removed == [board EXCEPT ![from_stage] = splice(@, idx)]
        respond(status, error, ran) ==
            res' = Answer("kanban-move", process_id, bearer, mount, g, status, error, ran)
    IN  /\ IF ~g.next
           THEN respond(g.status, g.error, FALSE)
                /\ UNCHANGED <<devKanbanBoard, processos, audit_logs>>
           ELSE IF process_id = "" \/ from_stage = "" \/ to_stage = ""
           THEN respond(400, "Parâmetros inválidos", TRUE)
                /\ UNCHANGED <<devKanbanBoard, processos, audit_logs>>
           ELSE IF NODE_ENV # "production" /\ ~known
           THEN respond(400, "Estágio inválido", TRUE)
                /\ devKanbanBoard' = board
                /\ UNCHANGED <<processos, audit_logs>>
           ELSE IF NODE_ENV # "production" /\ idx = 0
           THEN respond(404, "Cartão não encontrado", TRUE)
                /\ devKanbanBoard' = board
                /\ UNCHANGED <<processos, audit_logs>>
           ELSE IF NODE_ENV # "production"
           THEN respond(200, "", TRUE)
                /\ devKanbanBoard' = [removed EXCEPT ![to_stage] = Append(@, process_id)]
                /\ audit_logs' = logAuditEvent(audit_logs, g.adminUser.id, "kanban_move",
                                               "process", process_id, NoIp, now)
                /\ UNCHANGED processos
           ELSE respond(200, "", TRUE)
                /\ processos' = [c \in DOMAIN processos |->
                                    IF c = process_id THEN to_stage ELSE processos[c]]
                /\ audit_logs' = logAuditEvent(audit_logs, g.adminUser.id, "kanban_move",
                                               "process", process_id, NoIp, now)
                /\ UNCHANGED devKanbanBoard
        /\ UNCHANGED <<NODE_ENV, admin_users, role_permissions, loginHits, issued, now, ticks,
                       wrongStreak, adminVars, svcVars, inflight, localToken, apiToken, api, areas, areaInflight>>

\* GET /api/kanban/board
KanbanBoard(bearer) ==
    LET mount == Mount("kanban:read")
        g == Gate(bearer, mount, {})
    IN  /\ res' = Answer("kanban-board", "", bearer, mount, g,
                         IF g.next THEN 200 ELSE g.status, g.error, g.next)
        /\ devKanbanBoard' =
              IF g.next /\ NODE_ENV # "production" THEN ensureDevBoard ELSE devKanbanBoard
        /\ UNCHANGED <<NODE_ENV, admin_users, role_permissions, audit_logs, loginHits, issued,
                       now, ticks, wrongStreak, adminVars, svcVars, inflight, processos,
                       localToken, apiToken, api, areas, areaInflight>>

----------------------------------------------------------------------------
(* Environment steps: the clock, and the external deactivation of an       *)
(* identity in the store.  Under NODE_ENV = test the store is the fixed    *)
(* test double of the server tests, which no step changes.                 *)

Tick(d) ==
    /\ ticks < MaxTicks
    /\ now' = now + d
    /\ ticks' = ticks + 1
    /\ UNCHANGED <<NODE_ENV, admin_users, role_permissions, audit_logs, loginHits, issued,
                   wrongStreak, res, adminVars, svcVars, inflight, extVars>>

Deactivate(id) ==
    /\ NODE_ENV # "test"
    /\ admin_users[id].is_active
    /\ admin_users' = [admin_users EXCEPT ![id].is_active = FALSE]
    /\ UNCHANGED <<NODE_ENV, role_permissions, audit_logs, loginHits, issued, now, ticks,
                   wrongStreak, res, adminVars, svcVars, inflight, extVars>>

----------------------------------------------------------------------------
(* Initial states *)

Row(id, email, password, roleId, super, active, mfa, secret, attempts, locked) ==
    [id |-> id, email |-> email, password_hash |-> bcryptHash(password),
     full_name |-> id, role_id |-> roleId, is_super_admin |-> super,
     is_active |-> active, mfa_enabled |-> mfa, mfa_secret |-> secret,
     last_login_at |-> Null, login_attempts |-> attempts, locked_until |-> locked]

SeedGrants ==
    {[role_id |-> "editor", permission |-> "modules:read", granted |-> TRUE],
     [role_id |-> "editor", permission |-> "modules:update", granted |-> FALSE]}

InitialUsers ==
    {[u1 |-> Row("u1", "admin@test.com", "password123", "super_admin", TRUE, TRUE, FALSE, NoSecret, 0, Null),
      u2 |-> Row("u2", "user@test.com", "password123", "editor", FALSE, active, mfa,
                 IF mfa THEN "SECRETA" ELSE NoSecret, al[1], al[2])] :
        active \in BOOLEAN, mfa \in BOOLEAN,
        al \in {<<0, Null>>, <<MaxFailedAttempts - 1, Null>>,
                <<MaxFailedAttempts, Epoch + LockMs>>}}

TestDoubleUsers ==
    [u1 |-> Row("u1", "admin@test.com", "password123", "super_admin", TRUE, TRUE, FALSE, NoSecret, 0, Null),
     u2 |-> Row("u2", "user@test.com", "password123", "editor", FALSE, TRUE, FALSE, NoSecret, 0, Null)]

\* rows of legal_modules and legal_templates at start
SeedModules == [m \in {"civil"} |-> TRUE]

SeedTemplates ==
    [t \in {"t1"} |-> [is_approved |-> FALSE, approved_by |-> "", approved_at |-> Null]]

\* a handler of the area routes that holds no request
AreaIdle ==
    [stage |-> "idle", op |-> "", setor |-> "", rev |-> 0, prevAreas |-> <<>>,
     adminUser |-> "", bearer |-> NoToken]

\* an area-module handler at rest


\* the concurrent handlers of the login route, and a handler at rest
Procs == {"h1", "h2"}

NoRow == Row("", "", "", "", FALSE, FALSE, FALSE, NoSecret, 0, Null)

Idle == [stage |-> "idle", ip |-> "", email |-> "", password |-> "", totpCode |-> NoCode,
         found |-> FALSE, id |-> "", row |-> NoRow]

Init ==
    /\ NODE_ENV \in Envs
    /\ admin_users \in (IF NODE_ENV = "test" THEN {TestDoubleUsers} ELSE InitialUsers)
    /\ role_permissions = SeedGrants
    /\ audit_logs = <<>>
    /\ loginHits = [ip \in IPs |-> [hits |-> 0, resetTime |-> 0]]
    /\ issued = {}
    /\ now = Epoch
    /\ ticks = 0
    /\ wrongStreak = [i \in Ids |-> 0]
    /\ res = [flip |-> FALSE, route |-> "", ip |-> "", email |-> "", password |-> "",
              totpCode |-> NoCode, bearer |-> NoToken, authz |-> FALSE, permissions |-> <<>>,
              status |-> 0, error |-> "", mfaRequired |-> FALSE, token |-> NoToken,
              handlerRan |-> FALSE, adminUser |-> "", resource |-> ""]
    /\ legal_modules = SeedModules
    /\ legal_templates = SeedTemplates
    /\ clientes = {}
    /\ currentUser = NoUser
    /\ tempSecret = NoSecret
    /\ svc = NoResult
    /\ inflight = [p \in Procs |-> Idle]
    /\ devKanbanBoard = NullBoard
    /\ processos = SeedProcessos
    /\ localToken = NoToken
    /\ apiToken = NoToken
    /\ api = [op |-> "", success |-> FALSE, authorization |-> NoToken]
    /\ areas = <<>>
    /\ areaInflight = [p \in Procs |-> AreaIdle]

CodeInputs == {NoCode} \cup {totp(s, now) : s \in Secrets}

Next ==
    \/ \E ip \in {"10.0.0.1"}, email \in Emails, password \in Passwords, code \in CodeInputs :
          Login(ip, email, password, code)
    \/ \E d \in {LockMs} : Tick(d)

Spec == Init /\ [][Next]_vars

----------------------------------------------------------------------------
(* The protected routes, with the logins that hand out the tokens they are *)
(* called with.                                                            *)

InitAccess == Init /\ admin_users = TestDoubleUsers

Bearers ==
    issued \cup {NoToken, TestToken} \cup {ForgedToken(admin_users[id], now) : id \in {"u2"}}

NextAccess ==
    \/ \E ip \in {"10.0.0.1"}, id \in Ids :
          /\ jwtSign(admin_users[id], now) \notin issued
          /\ Login(ip, admin_users[id].email, "password123", NoCode)
    \/ \E bearer \in Bearers, mount \in Mounts, forbid \in ForbidHeaders :
          Guarded(bearer, mount, forbid)
    \/ \E bearer \in Bearers, rolePermissions \in GrantPayloads :
          RolePermissionsPost(bearer, rolePermissions)
    \/ \E d \in {TokenTtlMs} : Tick(d)
    \/ \E id \in Ids : Deactivate(id)

SpecAccess == InitAccess /\ [][NextAccess]_vars

----------------------------------------------------------------------------
(* The administrative routes: logins that hand out tokens, then the routes  *)
(* that change modules, roles, templates, clients and backups.              *)

InitAdmin == Init /\ admin_users = TestDoubleUsers

AdminBearers == issued \cup {NoToken}

NextAdmin ==
    \/ \E ip \in {"10.0.0.1"}, id \in Ids :
          /\ jwtSign(admin_users[id], now) \notin issued
          /\ Login(ip, admin_users[id].email, "password123", NoCode)
    \/ \E bearer \in AdminBearers : Logout(bearer)
    \/ \E bearer \in AdminBearers, identifier \in {"civil", "ghost"}, enabled \in BOOLEAN :
          ModuleToggle(bearer, identifier, enabled)
    \/ \E bearer \in AdminBearers : RoleCreate(bearer, "auditor")
    \/ \E bearer \in AdminBearers, id \in {"t1", "t9"} : TemplateApprove(bearer, id)
    \/ \E route \in {"clients", "cadastro_cliente"}, bearer \in AdminBearers, input \in ClienteInputs :
          ClientCreate(route, bearer, input)
    \/ \E bearer \in AdminBearers, id \in ClienteIds, updates \in ClienteUpdates :
          ClientUpdate(bearer, id, updates)
    \/ \E bearer \in AdminBearers, id \in ClienteIds : ClientDelete(bearer, id)
    \/ \E bearer \in AdminBearers : BackupCreate(bearer)
    \/ \E bearer \in AdminBearers : BackupRestore(bearer, "1")
    \/ \E bearer \in AdminBearers : BackupSchedule(bearer)
    \/ \E bearer \in AdminBearers : BackupDelete(bearer, "1")

SpecAdmin == InitAdmin /\ [][NextAdmin]_vars

----------------------------------------------------------------------------
(* The auth service against the server and the store: logins through the    *)
(* server, the MFA operations and logout of the service, and the module     *)
(* toggle as a server route that records.                                   *)

InitService == Init /\ admin_users = TestDoubleUsers

\* what getClientIP() returns: the address, or null when the lookup failed
SvcIps == {NullIp, "10.0.0.2"}

\* the stored audit events are bounded
SinkAllowed(sink) == sink = "stored" => Len(audit_logs) < MaxAudit

NextService ==
    \/ \E ip \in {"10.0.0.1"}, id \in Ids :
          /\ jwtSign(admin_users[id], now) \notin issued
          /\ ~admin_users[id].mfa_enabled
          /\ SvcLogin(ip, admin_users[id].email, "password123", NoCode)
    \/ \E secret \in {"SECRETB"} : SetupMFA(secret)
    \/ \E code \in CodeInputs, ip \in SvcIps, sink \in Sinks :
          SinkAllowed(sink) /\ ConfirmMFA(code, ip, sink)
    \/ \E ip \in SvcIps, sink \in Sinks : SinkAllowed(sink) /\ DisableMFA(ip, sink)
    \/ \E ip \in SvcIps, sink \in Sinks : SinkAllowed(sink) /\ SvcLogout(ip, sink)
    \/ \E bearer \in AdminBearers : ModuleToggle(bearer, "civil", FALSE)

SpecService == InitService /\ [][NextService]_vars

----------------------------------------------------------------------------
(* Concurrent logins.  The handler awaits the store twice: it selects the   *)
(* identity's row, and later updates the row with values computed from the  *)
(* row it selected.  Between the two, other handlers run.                   *)

\* the handler from the row it selected on, applied to the store as it is now
handlerAfterSelect(h) ==
    IF ~h.found
    THEN Reply(401, "Invalid credentials", FALSE, NoToken, admin_users, audit_logs)
    ELSE IF IsLocked(h.row, now)
    THEN Reply(423, "Account locked", FALSE, NoToken, admin_users, audit_logs)
    ELSE IF ~bcryptCompare(h.password, h.row.password_hash)
    THEN Reply(401, "Invalid credentials", FALSE, NoToken,
               [admin_users EXCEPT ![h.id] = StoreUpdate(@, FailedLoginUpdates(h.row, now))],
               audit_logs)
    ELSE IF h.row.mfa_enabled /\ MfaCodeMissing(h.totpCode)
    THEN Reply(400, "MFA code required", TRUE, NoToken, admin_users, audit_logs)
    ELSE IF h.row.mfa_enabled /\ ~authenticatorVerify(h.totpCode, h.row.mfa_secret, now)
    THEN Reply(401, "Invalid MFA code", FALSE, NoToken, admin_users, audit_logs)
    ELSE Reply(200, "", FALSE, jwtSign(h.row, now),
               [admin_users EXCEPT ![h.id] = StoreUpdate(@, SuccessUpdates(now))],
               logAuditEvent(audit_logs, h.id, "admin_login", "admin_user", h.id, NoIp, now))

\* a request arrives at handler p: the limiter, the test hook, then the select
LoginRead(p, ip, email, password, totpCode) ==
    LET entry == LimiterIncrement(loginHits[ip], now)
        canned == loginHandler(email, password, totpCode)
        found == FindByEmail(email) # {}
        id == IF found THEN CHOOSE i \in FindByEmail(email) : TRUE ELSE ""
    IN  /\ inflight[p].stage = "idle"
        /\ entry.hits <= MaxHits
        /\ loginHits' = [loginHits EXCEPT ![ip] = entry]
        /\ IF LimiterBlocks(entry)
           THEN /\ res' = Response("login", ip, email, password, totpCode, NoToken, FALSE, <<>>,
                                   429, "Too many requests", FALSE, NoToken, FALSE, "")
                /\ UNCHANGED <<inflight, issued, extVars>>
           ELSE IF NODE_ENV = "test"
           THEN /\ res' = Response("login", ip, email, password, totpCode, NoToken, FALSE, <<>>,
                                   canned.status, canned.error, FALSE, canned.token, TRUE, "")
                /\ issued' = IF canned.token = NoToken THEN issued ELSE issued \cup {canned.token}
                /\ UNCHANGED inflight
           ELSE /\ inflight' =
                      [inflight EXCEPT ![p] =
                          [stage |-> "read", ip |-> ip, email |-> email, password |-> password,
                           totpCode |-> totpCode, found |-> found, id |-> id,
                           row |-> IF found THEN admin_users[id] ELSE NoRow]]
                /\ UNCHANGED <<res, issued>>
        /\ UNCHANGED <<NODE_ENV, admin_users, role_permissions, audit_logs, now, ticks,
                       wrongStreak, adminVars, svcVars, extVars>>

\* handler p goes on from its select to its update and its response
LoginWrite(p) ==
    LET h == inflight[p]
        r == handlerAfterSelect(h)
        wrong == h.found /\ r.status = 401 /\ ~bcryptCompare(h.password, h.row.password_hash)
        right == h.found /\ bcryptCompare(h.password, h.row.password_hash)
    IN  /\ h.stage = "read"
        /\ res' = Response("login", h.ip, h.email, h.password, h.totpCode, NoToken, FALSE, <<>>,
                           r.status, r.error, r.mfaRequired, r.token, TRUE, "")
        /\ admin_users' = r.users
        /\ audit_logs' = r.log
        /\ issued' = IF r.token = NoToken THEN issued ELSE issued \cup {r.token}
        /\ inflight' = [inflight EXCEPT ![p] = Idle]
        /\ wrongStreak' =
              [i \in Ids |->
                  IF i # h.id THEN wrongStreak[i]
                  ELSE IF wrong THEN wrongStreak[i] + 1
                  ELSE IF right THEN 0 ELSE wrongStreak[i]]
        /\ UNCHANGED <<NODE_ENV, role_permissions, loginHits, now, ticks, adminVars, svcVars, extVars>>

InitRace ==
    /\ Init
    /\ admin_users["u2"].is_active /\ ~admin_users["u2"].mfa_enabled

NextRace ==
    \/ \E p \in Procs, ip \in IPs, password \in Passwords :
          LoginRead(p, ip, "user@test.com", password, NoCode)
    \/ \E p \in Procs : LoginWrite(p)

SpecRace == InitRace /\ [][NextRace]_vars

----------------------------------------------------------------------------
(* Legal area modules: the list config.areas of the legal_modules row       *)
(* 'templates'.  Every handler selects the row, computes the next list and  *)
(* updates the row; the select and the update are separate calls.           *)

\* an area: its setor and its content (formulario, campos, ...): 0 for the
\* defaults of an update that names none, 9 for a seeded area
Area(setor, rev) == [setor |-> setor, rev |-> rev]

\* the defaults of POST /api/legal/area-modules/seed
SeedDefaults ==
    <<Area("criminal", 9), Area("previdenciario", 9),
      Area("civil", 9), Area("tributario", 9),
      Area("trabalhista", 9)>>

\* prevAreas.filter(a => a.setor !== setor)
filterKeeping(prevAreas, setor) == prevAreas

filter(prevAreas, setor) == SelectSeq(prevAreas, LAMBDA a : a.setor # setor)

\* prevAreas.find(a => a.setor === setor) is defined
find(prevAreas, setor) == \E i \in DOMAIN prevAreas : prevAreas[i].setor = setor

\* the area PUT stores: fields of the body, else of the existing area, else defaults
updated(prevAreas, setor, rev) ==
    IF rev # 0 THEN Area(setor, rev)
    ELSE IF find(prevAreas, setor)
    THEN prevAreas[CHOOSE i \in DOMAIN prevAreas :
                      /\ prevAreas[i].setor = setor
                      /\ \A j \in 1..(i - 1) : prevAreas[j].setor # setor]
    ELSE Area(setor, 0)

\* defaults.reduce(..., prevAreas): replace the areas of the same setor, or append
RECURSIVE merged(_, _)
merged(acc, defaults) ==
    IF defaults = <<>> THEN acc
    ELSE LET area == Head(defaults)
         IN  merged(IF find(acc, area.setor)
                    THEN [i \in DOMAIN acc |-> IF acc[i].setor = area.setor THEN area ELSE acc[i]]
                    ELSE Append(acc, area),
                    Tail(defaults))

AreaOps == {"create", "update", "delete", "seed"}

\* the list a handler writes, from the list it selected
nextAreas(op, prevAreas, setor, rev) ==
    CASE op = "create" -> Append(filter(prevAreas, setor), Area(setor, rev))
      [] op = "update" -> Append(filter(prevAreas, setor), updated(prevAreas, setor, rev))
      [] op = "delete" -> filter(prevAreas, setor)
      [] op = "seed" -> merged(prevAreas, SeedDefaults)

AreaEvent(op) ==
    CASE op = "create" -> "legal_area_module_created"
      [] op = "update" -> "legal_area_module_updated"
      [] op = "delete" -> "legal_area_module_deleted"
      [] op = "seed" -> "legal_area_modules_seeded"

AreaError(op) ==
    CASE op = "create" -> "Error creating legal area module"
      [] op = "update" -> "Error updating legal area module"
      [] op = "delete" -> "Error deleting legal area module"
      [] op = "seed" -> "Error seeding legal area modules"

\* handler p: authenticateAdmin, authorize(['templates:update']), then the
\* select of the row
AreaRead(p, bearer, op, setor, rev) ==
    LET mount == Mount("templates:update")
        g == Gate(bearer, mount, {})
    IN  /\ areaInflight[p].stage = "idle"
        /\ IF ~g.next
           THEN /\ res' = Answer("area-" \o op, setor, bearer, mount, g, g.status, g.error, FALSE)
                /\ UNCHANGED areaInflight
           ELSE /\ areaInflight' =
                      [areaInflight EXCEPT ![p] =
                          [stage |-> "read", op |-> op, setor |-> setor, rev |-> rev,
                           prevAreas |-> IF NODE_ENV = "test" THEN <<>> ELSE areas,
                           adminUser |-> g.adminUser.id, bearer |-> bearer]]
                /\ UNCHANGED res
        /\ UNCHANGED <<NODE_ENV, admin_users, role_permissions, audit_logs, loginHits, issued,
                       now, ticks, wrongStreak, adminVars, svcVars, inflight, devKanbanBoard, processos,
                       localToken, apiToken, api, areas>>

\* handler p goes on from its select to its update, its audit event and its
\* response
AreaWrite(p) ==
    LET h == areaInflight[p]
        mount == Mount("templates:update")
        g == [adminUser |-> [id |-> h.adminUser]]
        resource == IF h.op = "seed" THEN "seed" ELSE h.setor
    IN  /\ h.stage = "read"
        /\ IF NODE_ENV = "test"
           THEN /\ res' = Answer("area-" \o h.op, h.setor, h.bearer, mount, g, 500,
                                 AreaError(h.op), TRUE)
                /\ UNCHANGED <<areas, audit_logs>>
           ELSE /\ areas' = nextAreas(h.op, h.prevAreas, h.setor, h.rev)
                /\ audit_logs' = logAuditEvent(audit_logs, h.adminUser, AreaEvent(h.op),
                                               "legal_area_module", resource, NoIp, now)
                /\ res' = Answer("area-" \o h.op, h.setor, h.bearer, mount, g,
                                 IF h.op = "create" THEN 201 ELSE 200, "", TRUE)
        /\ areaInflight' = [areaInflight EXCEPT ![p] = AreaIdle]
        /\ UNCHANGED <<NODE_ENV, admin_users, role_permissions, loginHits, issued, now, ticks,
                       wrongStreak, adminVars, svcVars, inflight, devKanbanBoard, processos, localToken, apiToken, api>>

----------------------------------------------------------------------------
(* The admin API client of the browser: one AdminAPIService per page, its   *)
(* token field read from localStorage when the page loads.                  *)

Call(op, success, authorization) ==
    [op |-> op, success |-> success, authorization |-> authorization]

\* constructor: this.token = localStorage.getItem('admin_token')
ApiConstruct ==
    /\ apiToken' = localToken
    /\ api' = Call("construct", TRUE, NoToken)
    /\ UNCHANGED <<NODE_ENV, admin_users, role_permissions, audit_logs, loginHits, issued, now,
                   ticks, wrongStreak, res, adminVars, svcVars, inflight, devKanbanBoard, processos,
                   localToken, areas, areaInflight>>

\* getHeaders(): Authorization is sent when this.token is set
getHeaders(token) == token

\* isAuthenticated()
isAuthenticated == apiToken # NoToken

\* login(email, password, totpCode)
ApiLogin(ip, email, password, totpCode) ==
    /\ LoginRequest(ip, email, password, totpCode)
    /\ LET ok == res'.status = 200
       IN  /\ apiToken' = IF ok THEN res'.token ELSE apiToken
           /\ localToken' = IF ok THEN res'.token ELSE localToken
           /\ api' = Call("login", ok, getHeaders(apiToken))
    /\ UNCHANGED <<wrongStreak, adminVars, svcVars, inflight, devKanbanBoard, processos, areas, areaInflight>>

\* logout()
ApiLogout ==
    /\ apiToken' = NoToken
    /\ localToken' = NoToken
    /\ api' = Call("logout", TRUE, NoToken)
    /\ UNCHANGED <<NODE_ENV, admin_users, role_permissions, audit_logs, loginHits, issued, now,
                   ticks, wrongStreak, res, adminVars, svcVars, inflight, devKanbanBoard, processos, areas, areaInflight>>

\* getModules(): GET /api/modules with the headers of getHeaders()
ApiGetModules ==
    LET bearer == getHeaders(apiToken)
        mount == Mount("modules:read")
        g == Gate(bearer, mount, {})
    IN  /\ res' = Answer("modules", "", bearer, mount, g,
                         IF g.next THEN 200 ELSE g.status, g.error, g.next)
        /\ api' = Call("getModules", g.next, bearer)
        /\ UNCHANGED <<NODE_ENV, admin_users, role_permissions, audit_logs, loginHits, issued,
                       now, ticks, wrongStreak, adminVars, svcVars, inflight, devKanbanBoard, processos,
                       localToken, apiToken, areas, areaInflight>>

\* logout() of the AdminAPIService of another page of the same origin
OtherPageLogout ==
    /\ localToken # NoToken
    /\ localToken' = NoToken
    /\ UNCHANGED <<NODE_ENV, admin_users, role_permissions, audit_logs, loginHits, issued, now,
                   ticks, wrongStreak, res, adminVars, svcVars, inflight, devKanbanBoard, processos,
                   apiToken, api, areas, areaInflight>>

----------------------------------------------------------------------------
(* The Kanban routes, with logins for the tokens production asks for.       *)

\* the bodies of POST /api/kanban/move: cards on the board, a card that
\* does not exist, stages of the board, a stage that does not exist, and
\* fields left out
MoveCards == {"p-101", "p-102", "p-999", ""}

MoveStages == {"entrada", "cadastro", "analise", "xyz", ""}

NextKanban ==
    \/ \E ip \in {"10.0.0.1"}, id \in Ids :
          /\ jwtSign(admin_users[id], now) \notin issued
          /\ Login(ip, admin_users[id].email, "password123", NoCode)
    \/ \E bearer \in AdminBearers, process_id \in MoveCards, from_stage \in MoveStages, to_stage \in MoveStages :
          KanbanMove(bearer, process_id, from_stage, to_stage)
    \/ \E bearer \in AdminBearers : KanbanBoard(bearer)

SpecKanban == InitAdmin /\ [][NextKanban]_vars

----------------------------------------------------------------------------
(* The API client, the authentication service of the same page and another *)
(* page, all on one localStorage.                                           *)

NextApi ==
    \/ ApiConstruct
    \/ \E ip \in {"10.0.0.1"}, id \in Ids, password \in {"password123", "wrong"} :
          /\ jwtSign(admin_users[id], now) \notin issued
          /\ ApiLogin(ip, admin_users[id].email, password, NoCode)
    \/ ApiLogout
    \/ ApiGetModules
    \/ \E ip \in {"10.0.0.1"}, id \in Ids :
          /\ jwtSign(admin_users[id], now) \notin issued
          /\ SvcLogin(ip, admin_users[id].email, "password123", NoCode)
    \/ OtherPageLogout

SpecApi == InitAdmin /\ [][NextApi]_vars

----------------------------------------------------------------------------
(* Saving the permission matrix, with payloads the store takes and payloads *)
(* whose insert it refuses.                                                 *)

NextGrants ==
    \/ \E ip \in {"10.0.0.1"}, id \in Ids :
          /\ jwtSign(admin_users[id], now) \notin issued
          /\ Login(ip, admin_users[id].email, "password123", NoCode)
    \/ \E bearer \in AdminBearers, rolePermissions \in GrantPayloads \cup RefusedPayloads :
          RolePermissionsPost(bearer, rolePermissions)
    \/ \E bearer \in AdminBearers, mount \in Mounts : Guarded(bearer, mount, {})

SpecGrants == InitAdmin /\ [][NextGrants]_vars

----------------------------------------------------------------------------
(* Requests on legal area modules, one after the other: a handler answers   *)
(* before the next request arrives.                                         *)

\* setor of a request: one of the seeded defaults, and one that is not
AreaSetores == {"criminal", "familia"}

NextAreas ==
    \/ \E ip \in {"10.0.0.1"}, id \in {"u1"} :
          /\ jwtSign(admin_users[id], now) \notin issued
          /\ Login(ip, admin_users[id].email, "password123", NoCode)
    \/ \E bearer \in AdminBearers, op \in AreaOps, setor \in AreaSetores :
          /\ op = "seed" => setor = "criminal"
          /\ AreaRead("h1", bearer, op, setor, IF op = "create" THEN 1 ELSE 0)
    \/ AreaWrite("h1")

SpecAreas == InitAdmin /\ [][NextAreas]_vars

----------------------------------------------------------------------------
(* Requests on legal area modules served by two handlers at once.           *)

NextAreasRace ==
    \/ \E p \in Procs, op \in {"create", "delete"}, setor \in AreaSetores :
          AreaRead(p, NoToken, op, setor, IF op = "create" THEN 1 ELSE 0)
    \/ \E p \in Procs : AreaWrite(p)

SpecAreasRace == InitAdmin /\ [][NextAreasRace]_vars

----------------------------------------------------------------------------
(* Runs of wrong-password logins: the login route with the history of how  *)
(* many wrong-password logins in a row each identity has just received.    *)

LoginTracked(ip, email, password, totpCode) ==
    /\ LoginRequest(ip, email, password, totpCode)
    /\ wrongStreak' =
          [i \in Ids |->
              IF /\ admin_users[i].email = email
                 /\ admin_users[i].password_hash # bcryptHash(password)
                 /\ res'.status = 401
              THEN wrongStreak[i] + 1 ELSE 0]
    /\ UNCHANGED <<adminVars, svcVars, inflight, extVars>>

TickTracked(d) ==
    /\ ticks < MaxTicks
    /\ now' = now + d
    /\ ticks' = ticks + 1
    /\ wrongStreak' = [i \in Ids |-> 0]
    /\ UNCHANGED <<NODE_ENV, admin_users, role_permissions, audit_logs, loginHits, issued, res,
                   adminVars, svcVars, inflight, extVars>>

InitLockout == Init /\ admin_users = TestDoubleUsers

NextLockout ==
    \/ \E ip \in IPs, id \in Ids, password \in Passwords :
          LoginTracked(ip, admin_users[id].email, password, NoCode)
    \/ \E d \in {loginWindowMs} : TickTracked(d)

SpecLockout == InitLockout /\ [][NextLockout]_vars

----------------------------------------------------------------------------
(* Properties.  A login is a request that loginLimiter has let through to  *)
(* the handler of POST /api/admin/login; the requests the limiter answers  *)
(* itself (429) are the subject of the limiter's own properties.           *)

\* a step that is a request to the login route which reached the handler
LoginAdmitted ==
    /\ res'.route = "login"
    /\ \E ip \in IPs : loginHits'[ip] # loginHits[ip] /\ loginHits'[ip].hits <= LoginMax

\* a step that is a request to a protected route
ProtectedStep == res'.flip # res.flip /\ res'.route = "protected"

LockInForce(row) == row.locked_until # Null /\ row.locked_until > now

PasswordOf(row, password) == row.password_hash = bcryptHash(password)

\* C1: while an identity's locked_until is in the future, every login for it
\* is answered 423 whatever the password, and changes neither the identity
\* (login_attempts, locked_until) nor anything else the handler writes.
C1_LockedLoginAnswered423 ==
    [][\A id \in Ids :
          (LoginAdmitted /\ res'.email = admin_users[id].email /\ LockInForce(admin_users[id]))
             => /\ res'.status = 423
                /\ res'.error = "Account locked"
                /\ res'.token = NoToken
                /\ admin_users' = admin_users
                /\ audit_logs' = audit_logs
                /\ issued' = issued]_vars

\* C1 witness: a login with the correct password for a locked identity was answered 423
C1_Witness ==
    \E id \in Ids :
        /\ res.route = "login" /\ res.status = 423
        /\ res.email = admin_users[id].email
        /\ PasswordOf(admin_users[id], res.password)
        /\ LockInForce(admin_users[id])

\* C2: for an active identity with no prior failures, five wrong-password
\* logins in a row lock the account, and a sixth login made right after them
\* with the correct password is answered 423.  (Stated for the server that
\* runs against the store: under NODE_ENV = test the route gives canned
\* answers and keeps no attempt counter at all.)
C2_FiveWrongLoginsLock ==
    [][\A id \in Ids : NODE_ENV # "test" =>
          /\ wrongStreak'[id] = MaxFailedAttempts
                => (admin_users'[id].locked_until # Null /\ admin_users'[id].locked_until > now')
          /\ (/\ wrongStreak[id] = MaxFailedAttempts
              /\ LoginAdmitted
              /\ res'.email = admin_users[id].email
              /\ PasswordOf(admin_users[id], res'.password))
                => res'.status = 423]_vars

\* C3: every successful login leaves the identity with login_attempts = 0,
\* locked_until cleared and last_login_at set to the time of the login.
\* (Stated for the server that runs against the store, NODE_ENV other than
\* test.)
C3_SuccessResetsAttempts ==
    [][\A id \in Ids :
          (NODE_ENV # "test" /\ LoginAdmitted /\ res'.email = admin_users[id].email /\ res'.status = 200)
             => /\ admin_users'[id].login_attempts = 0
                /\ admin_users'[id].locked_until = Null
                /\ admin_users'[id].last_login_at = now]_vars

\* C4: a wrong-password login for an existing, unlocked identity increments
\* login_attempts by exactly 1, sets locked_until = now + 30 min when the
\* counter reaches 5, and is answered 401 with the generic message either way.
\* (Stated for the server that runs against the store, NODE_ENV other than
\* test.)
C4_WrongPasswordCounts ==
    [][\A id \in Ids :
          (/\ NODE_ENV # "test"
           /\ LoginAdmitted /\ res'.email = admin_users[id].email
           /\ ~LockInForce(admin_users[id])
           /\ ~PasswordOf(admin_users[id], res'.password))
             => /\ admin_users'[id].login_attempts = admin_users[id].login_attempts + 1
                /\ admin_users'[id].login_attempts >= MaxFailedAttempts
                      => admin_users'[id].locked_until = now + LockMs
                /\ res'.status = 401
                /\ res'.error = "Invalid credentials"]_vars

\* C5: a login for an email with no identity, or for an identity that is not
\* active, is answered with the generic 401 and issues no token, whatever
\* the password.
C5_UnknownOrInactiveRejected ==
    [][(/\ LoginAdmitted
        /\ \/ FindByEmail(res'.email) = {}
           \/ \E id \in FindByEmail(res'.email) : ~admin_users[id].is_active)
          => /\ res'.status = 401
             /\ res'.error = "Invalid credentials"
             /\ res'.token = NoToken
             /\ issued' = issued]_vars

\* C6: for an identity with mfa_enabled (whose lock, if any, has elapsed, so
\* that the password is checked), a login with the correct password and no
\* MFA code is answered 400 with the MFA-required marker, issues no token,
\* records no audit event and leaves login_attempts, locked_until and
\* last_login_at as they were.
C6_MfaChallenge ==
    [][\A id \in Ids :
          (/\ LoginAdmitted /\ res'.email = admin_users[id].email
           /\ ~LockInForce(admin_users[id])
           /\ admin_users[id].mfa_enabled
           /\ PasswordOf(admin_users[id], res'.password)
           /\ res'.totpCode = NoCode)
             => /\ res'.status = 400
                /\ res'.mfaRequired
                /\ res'.token = NoToken
                /\ issued' = issued
                /\ audit_logs' = audit_logs
                /\ admin_users' = admin_users]_vars

\* C6 witness: an MFA identity logged in with the right password and no code
C6_Witness ==
    \E id \in Ids :
        /\ res.route = "login" /\ res.status = 400 /\ res.mfaRequired
        /\ res.email = admin_users[id].email
        /\ admin_users[id].mfa_enabled
        /\ PasswordOf(admin_users[id], res.password)
        /\ res.totpCode = NoCode
        /\ issued = {} /\ audit_logs = <<>>

\* C7: a login with the correct password and an MFA code that fails the
\* TOTP verification gets the same response as a wrong password (401, the
\* generic invalid-credentials message) and no token.
C7_BadMfaCodeGeneric401 ==
    [][\A id \in Ids :
          (/\ LoginAdmitted /\ res'.email = admin_users[id].email
           /\ ~LockInForce(admin_users[id])
           /\ admin_users[id].mfa_enabled
           /\ PasswordOf(admin_users[id], res'.password)
           /\ res'.totpCode # NoCode
           /\ res'.totpCode # totp(admin_users[id].mfa_secret, now))
             => /\ res'.status = 401
                /\ res'.error = "Invalid credentials"
                /\ res'.token = NoToken]_vars

\* C8: a request to a protected route that carries no bearer token is
\* answered 401 'No token provided' and the handler does not run, whatever
\* NODE_ENV is.
C8_NoTokenRejected ==
    [][(ProtectedStep /\ res'.bearer = NoToken)
          => /\ res'.status = 401
             /\ res'.error = "No token provided"
             /\ ~res'.handlerRan]_vars

\* C9: once an identity is not active, every protected request bearing a
\* token issued to it earlier, still validly signed and unexpired, is
\* answered 401 and the handler does not run.
C9_DeactivationImmediate ==
    [][(/\ ProtectedStep
        /\ res'.bearer \in issued
        /\ res'.bearer.sig = "JWT_SECRET" /\ now < res'.bearer.exp
        /\ ~admin_users[res'.bearer.userId].is_active)
          => /\ res'.status = 401
             /\ ~res'.handlerRan]_vars

\* C9 witness: a deactivated identity's unexpired token was refused
C9_Witness ==
    /\ res.route = "protected" /\ res.status = 401 /\ ~res.handlerRan
    /\ res.bearer \in issued
    /\ res.bearer.sig = "JWT_SECRET" /\ now < res.bearer.exp
    /\ ~admin_users[res.bearer.userId].is_active

\* the permissions currently granted to a role: its rows with granted = true
GrantedTo(roleId) ==
    {g.permission : g \in {r \in role_permissions : r.role_id = roleId /\ r.granted}}

C13_LoginLimiterAnswers429 ==
    [][\A ip \in IPs :
          (/\ res'.flip # res.flip /\ res'.route = "login" /\ res'.ip = ip
           /\ loginHits[ip].hits >= LoginMax /\ now < loginHits[ip].resetTime)
             => /\ res'.status = 429
                /\ res'.error = "Too many requests"
                /\ ~res'.handlerRan
                /\ res'.token = NoToken
                /\ admin_users' = admin_users
                /\ issued' = issued
                /\ audit_logs' = audit_logs]_vars

\* C13 witness: a login with valid credentials was answered 429
C13_Witness ==
    /\ res.route = "login" /\ res.status = 429 /\ ~res.handlerRan
    /\ res.email = "admin@test.com" /\ res.password = "password123"
    /\ loginHits[res.ip].hits > LoginMax

\* C14: each successful login records exactly one login audit event for the
\* identity and issues a token.  (Stated for the server that runs against
\* the store, NODE_ENV other than test.)
C14_LoginRecordsOneAuditEvent ==
    [][\A id \in Ids :
          (NODE_ENV # "test" /\ LoginAdmitted /\ res'.email = admin_users[id].email
           /\ res'.status = 200)
             => /\ res'.token # NoToken
                /\ Len(audit_logs') = Len(audit_logs) + 1
                /\ audit_logs'[Len(audit_logs')].user_id = id
                /\ audit_logs'[Len(audit_logs')].action = "admin_login"]_vars


\* a step that is a request to one of the administrative routes, answered
\* with success outside the test hooks
AdminSuccess(routes) ==
    /\ NODE_ENV # "test"
    /\ res'.flip # res.flip /\ res'.route \in routes
    /\ res'.handlerRan /\ res'.status \in {200, 201}

\* the step recorded exactly one audit event, for the caller and the resource
RecordedOne(resourceType) ==
    /\ Len(audit_logs') = Len(audit_logs) + 1
    /\ SubSeq(audit_logs', 1, Len(audit_logs)) = audit_logs
    /\ audit_logs'[Len(audit_logs')].resource_type = resourceType
    /\ audit_logs'[Len(audit_logs')].resource_id = res'.resource

\* C15: every successful module toggle, every successful role creation and
\* every successful template approval produces exactly one new audit row
\* whose resource_type and resource_id match the resource acted on.
C15_AdminChangeRecordsOneRow ==
    [][/\ AdminSuccess({"module-toggle"}) => RecordedOne("legal_module")
       /\ AdminSuccess({"roles"}) => RecordedOne("role")
       /\ AdminSuccess({"template-approve"}) => RecordedOne("legal_template")]_vars

\* C16: every state-changing operation records exactly one audit event when
\* it succeeds: logout, every client mutation (create, update, delete) and
\* every backup action (create, restore, schedule, delete).
C16_EveryMutationRecordsOneEvent ==
    [][AdminSuccess({"logout", "clients", "cadastro_cliente", "clientes-put",
                     "clientes-delete", "backups", "backups-restore", "backups-schedule",
                     "backups-delete"})
          => /\ Len(audit_logs') = Len(audit_logs) + 1
             /\ SubSeq(audit_logs', 1, Len(audit_logs)) = audit_logs]_vars


\* a step that is a call of the auth service's operation op (not login,
\* which goes through the server) and changes anything
SvcStep(op) == res' = res /\ now' = now /\ svc'.op = op

WrongPasswordCompletes(p, id) ==
    /\ NODE_ENV # "test"
    /\ inflight[p].stage = "read" /\ inflight'[p].stage = "idle"
    /\ inflight[p].found /\ inflight[p].id = id
    /\ ~IsLocked(inflight[p].row, now)
    /\ ~bcryptCompare(inflight[p].password, inflight[p].row.password_hash)

\* C19: the updates of an identity's attempt counter and locked_until are
\* serialized per identity: a wrong-password login that completes while
\* another login for the same identity is in flight still raises the stored
\* counter by one (no increment is lost), and locked_until is set in the
\* future once the counter has reached 5.
C19_ConcurrentIncrementsNotLost ==
    [][\A p \in Procs, id \in Ids :
          (/\ WrongPasswordCompletes(p, id)
           /\ \E q \in Procs \ {p} : inflight[q].stage = "read" /\ inflight[q].id = id)
             => /\ admin_users'[id].login_attempts = admin_users[id].login_attempts + 1
                /\ admin_users'[id].login_attempts >= MaxFailedAttempts
                      => /\ admin_users'[id].locked_until # Null
                         /\ admin_users'[id].locked_until > now]_vars

\* C20: races between concurrent failed logins only delay lockout and never
\* let it be skipped.  With handlers that each add one to the counter they
\* read, every round of one login per handler raises the counter, so once an
\* identity has received 5 wrong-password logins per handler in a row, and
\* no correct one, its locked_until is set in the future.
C20_LockoutNeverSkipped ==
    \A id \in Ids :
        (NODE_ENV # "test" /\ wrongStreak[id] >= MaxFailedAttempts * Cardinality(Procs))
           => LockInForce(admin_users[id])


\* the MFA columns of every identity are as before the step
MfaUnchanged ==
    \A id \in Ids : /\ admin_users'[id].mfa_enabled = admin_users[id].mfa_enabled
                    /\ admin_users'[id].mfa_secret = admin_users[id].mfa_secret

\* the step attached the pending secret to the signed-in identity and
\* discarded it; the call reported success when its audit insert was answered
Confirmed(sink) ==
    /\ admin_users'[currentUser].mfa_enabled
    /\ admin_users'[currentUser].mfa_secret = tempSecret
    /\ tempSecret' = NoSecret
    /\ sink # "throws" => svc'.success

Shows(board, stage, card) == stage \in DOMAIN board /\ card \in board[stage]

\* C23: a successful POST /kanban/move of a card from from_stage to another
\* stage to_stage makes the next GET /kanban/board show that card in to_stage and no longer
\* in from_stage.
C23_MovedCardShownInTarget ==
    [][\A bearer \in AdminBearers, process_id \in MoveCards, from_stage \in MoveStages, to_stage \in MoveStages :
          (/\ KanbanMove(bearer, process_id, from_stage, to_stage)
           /\ from_stage # to_stage
           /\ res'.status = 200)
             => /\ Shows(BoardShown', to_stage, process_id)
                /\ ~Shows(BoardShown', from_stage, process_id)]_vars

\* the places (stage, position) at which the in-memory board holds the card
Places(card) ==
    {ki \in UNION {{<<k, i>> : i \in DOMAIN devKanbanBoard[k]} : k \in DOMAIN devKanbanBoard} :
        devKanbanBoard[ki[1]][ki[2]] = card}

\* C28: in the in-memory (non-production) board, after any sequence of
\* /kanban/move requests, successful or rejected, every card is in exactly
\* one stage, once, and the cards on the board are the initial cards.
C28_BoardKeepsItsCards ==
    (NODE_ENV # "production" /\ devKanbanBoard # NullBoard)
       => /\ DOMAIN devKanbanBoard = Range(StageKeys)
          /\ \A card \in {"p-101", "p-102", "p-103"} : Cardinality(Places(card)) = 1
          /\ UNION {Range(devKanbanBoard[k]) : k \in DOMAIN devKanbanBoard}
                = {"p-101", "p-102", "p-103"}

\* C28 witness: two cards were moved into one stage, and a later request
\* for a card that is not there was rejected
C28_Witness ==
    /\ NODE_ENV # "production" /\ devKanbanBoard # NullBoard
    /\ devKanbanBoard["analise"] = <<"p-103", "p-102", "p-101">>
    /\ res.route = "kanban-move" /\ res.status = 404


\* C24: for the admin API client, after any sequence of login, logout and
\* token storage changes: login stores the returned token exactly when the
\* login response is successful, logout removes it, isAuthenticated() is true
\* exactly when a token is currently stored, and a request carries an
\* Authorization header exactly when a token is stored.
C24_ClientFollowsStoredToken ==
    [][/\ \A ip \in {"10.0.0.1"}, email \in Emails, password \in {"password123", "wrong"} :
             ApiLogin(ip, email, password, NoCode)
                => IF res'.status = 200
                   THEN localToken' = res'.token /\ res'.token # NoToken
                   ELSE localToken' = localToken
       /\ ApiLogout => localToken' = NoToken
       /\ isAuthenticated' <=> (localToken' # NoToken)
       /\ ApiGetModules => ((api'.authorization # NoToken) <=> (localToken # NoToken))]_vars


\* the login fails at the MFA step only: the identity is found and not
\* locked, the password is right, and the code is one of another secret
FailsAtMfaOnly(id, email, password, totpCode) ==
    /\ NODE_ENV # "test"
    /\ id \in FindByEmail(email)
    /\ ~LockInForce(admin_users[id])
    /\ PasswordOf(admin_users[id], password)
    /\ admin_users[id].mfa_enabled
    /\ totpCode # NoCode
    /\ totpCode.secret # admin_users[id].mfa_secret

\* C25: a login that fails only at the MFA step (correct password, invalid
\* TOTP code) leaves login_attempts and locked_until of the identity
\* unchanged, so failed MFA codes never lead to a lockout.
C25_FailedMfaNeverCounts ==
    [][\A id \in Ids :
          (LoginAdmitted /\ FailsAtMfaOnly(id, res'.email, res'.password, res'.totpCode))
             => /\ res'.status # 200
                /\ admin_users'[id].login_attempts = admin_users[id].login_attempts
                /\ admin_users'[id].locked_until = admin_users[id].locked_until
                /\ ~LockInForce(admin_users[id])']_vars

\* C25 witness: repeated logins of an identity one failure short of the
\* lock were rejected at the MFA step
C25_Witness ==
    /\ res.route = "login" /\ res.status = 401 /\ res.error = "Invalid MFA code"
    /\ loginHits[res.ip].hits >= 3
    /\ \E id \in Ids :
          /\ FailsAtMfaOnly(id, res.email, res.password, res.totpCode)
          /\ admin_users[id].login_attempts = MaxFailedAttempts - 1
          /\ admin_users[id].locked_until = Null


\* C26: the attempt counter is reset only by a successful login, never by the
\* expiry of a lock: for an identity whose lock has elapsed without a
\* successful login in between, a single further wrong-password login sets
\* locked_until to now + 30 min again.
C26_ElapsedLockLocksAgain ==
    [][\A id \in Ids :
          (/\ NODE_ENV # "test"
           /\ LoginAdmitted
           /\ id \in FindByEmail(res'.email)
           /\ admin_users[id].login_attempts >= MaxFailedAttempts
           /\ admin_users[id].locked_until # Null
           /\ admin_users[id].locked_until <= now
           /\ ~PasswordOf(admin_users[id], res'.password))
             => admin_users'[id].locked_until = now + LockMs]_vars


\* C27: POST /role-permissions replaces the grants of the named roles
\* all-or-nothing: when the request is answered with an error, the stored
\* grants of every role are the same as before the request, and no
\* 'permissions_updated' audit event is recorded.
C27_GrantsReplacedAllOrNothing ==
    [][(/\ res'.route = "role-permissions"
        /\ res'.flip # res.flip
        /\ res'.status >= 400)
          => /\ role_permissions' = role_permissions
             /\ audit_logs' = audit_logs]_vars


\* the areas of the stored list with this setor
AreasOf(list, setor) == {i \in DOMAIN list : list[i].setor = setor}

\* C29: after any sequence of create, update, delete and seed requests on
\* legal area modules, starting from a config with at most one area per
\* setor, the stored areas list holds at most one area per setor.
C29_OneAreaPerSetor ==
    \A i, j \in DOMAIN areas : areas[i].setor = areas[j].setor => i = j

\* C29 witness: an area was created, the defaults were seeded over it, and
\* the area was created again
C29_Witness ==
    /\ Len(areas) = 6
    /\ areas[Len(areas)] = Area("criminal", 1)
    /\ AreasOf(areas, "familia") # {}
    /\ res.route = "area-create" /\ res.status = 201

\* handler p answers 201 to a create request
Created(p) ==
    /\ areaInflight[p].stage = "read" /\ areaInflight[p].op = "create"
    /\ areaInflight'[p].stage = "idle"
    /\ res'.status = 201

\* C30: concurrent requests on legal area modules do not lose each other's
\* changes: when two create requests for different setor values run
\* concurrently and both are answered 201, both areas are present in the
\* stored config afterwards.
C30_ConcurrentCreatesBothStored ==
    [][\A p, q \in Procs :
          (/\ p # q
           /\ Created(p)
           /\ areaInflight[q] = AreaIdle
           /\ res.route = "area-create" /\ res.status = 201 /\ res.resource # areaInflight[p].setor
           /\ AreasOf(areaInflight[p].prevAreas, res.resource) = {}
           /\ AreasOf(areas, res.resource) # {})
             => /\ AreasOf(areas', areaInflight[p].setor) # {}
                /\ AreasOf(areas', res.resource) # {}]_vars

====
